---- MODULE Spec2Model ----
(***************************************************************************)
(* A model of paddle/qa_model.py (class QAModel): the input schema check   *)
(* of check_and_create_data, the post-processor __parse_infer_ret, the     *)
(* reader __read_list and the evaluator evaluate, with infer_file as a     *)
(* sequence of JSON lines.                                                 *)
(*                                                                         *)
(* Conventions: Python lists are sequences, Python indices are 0-based and *)
(* kept 0-based in every variable (idx_len, idx_prob, start_idx, end_idx, *)
(* query); only the access s[k+1] shifts them.  The arrays lens and probs  *)
(* hold naturals: a passage length, and a probability scaled to a rank     *)
(* (only the order of probabilities and their ties matter to argmax).      *)
(* Text is unicode text, as json.loads of the data set yields it; every    *)
(* passage holds at least one token.                                       *)
(***************************************************************************)
EXTENDS Integers, Sequences, FiniteSets, TLC

VARIABLES
    \* QAModel.__init__
    inputs, is_infer, doc_num, metric,
    \* check_and_create_data / __call__
    attrs, layers, check_result, call_result,
    \* infer_file on disk, and the handle `of`
    file_exists, file_lines, of_open,
    \* evaluate: position, argument, how the call ended, calls made so far
    pc, from_file, status, runs,
    \* __parse_infer_ret locals
    nbatch, tok_total, batch, i, idx_len, idx_prob, ins_cnt,
    pred_list, ref_list, objs, loc, chk, w,
    \* what the last __parse_infer_ret returned and whether it was persisted
    ret_ref, ret_pred, stored, opened,
    \* the metric back ends called and the log lines written by this call
    calls, log,
    \* history: some evaluate call on infer_file has returned normally
    evaluated

vars == <<inputs, is_infer, doc_num, metric, attrs, layers, check_result,
          call_result, file_exists, file_lines, of_open, pc, from_file,
          status, runs, nbatch, tok_total, batch, i, idx_len, idx_prob,
          ins_cnt, pred_list, ref_list, objs, loc, chk, w, ret_ref,
          ret_pred, stored, opened, calls, log, evaluated>>

cfgVars == <<inputs, is_infer, doc_num, metric>>
schemaVars == <<attrs, layers, check_result, call_result>>
fileVars == <<file_exists, file_lines, of_open>>
parseVars == <<nbatch, tok_total, batch, i, idx_len, idx_prob, ins_cnt,
               pred_list, ref_list, objs, loc, chk, w>>
retVars == <<ret_ref, ret_pred, stored>>
evalVars == <<pc, from_file, status, runs, opened, calls, log, evaluated>>

(***************************************************************************)
(* Bounds of the model.                                                    *)
(***************************************************************************)
MaxDocNum == 2      \* doc_num ranges over 1..MaxDocNum
MaxEx == 2          \* examples in one batch
MaxSum == 3         \* passage tokens (sum of all lens) in one evaluation run
MaxBatches == 2     \* batches in one evaluation run
MaxRuns == 2        \* evaluate calls in one behaviour

ProbVals == {1, 2}
Metrics == {"marco", "squad", "foo"}

(***************************************************************************)
(* Program constants.                                                      *)
(***************************************************************************)
MinInferFields == 3
MinTrainFields == 5
MarcoDocNum == 5
OtherDocNum == 1
MaxRefs == 1

(***************************************************************************)
(* Python helpers.                                                         *)
(***************************************************************************)
Min(a, b) == IF a < b THEN a ELSE b

\* s[lo:hi] for 0 <= lo, 0 <= hi: the bounds are clamped to len(s)
Slice(s, lo, hi) == SubSeq(s, Min(lo, Len(s)) + 1, Min(hi, Len(s)))

\* range(lo, hi) as a list
Range(lo, hi) == [k \in 1..(IF hi > lo THEN hi - lo ELSE 0) |-> lo + k - 1]

RECURSIVE SumSeq(_)
SumSeq(s) == IF s = <<>> THEN 0 ELSE Head(s) + SumSeq(Tail(s))

\* numpy argmax scans left to right and keeps the first maximum (1-based here)
RECURSIVE ArgMaxScan(_, _, _)
ArgMaxScan(s, j, best) ==
    IF j > Len(s) THEN best
    ELSE ArgMaxScan(s, j + 1, IF s[j] > s[best] THEN j ELSE best)

RECURSIVE ArgMaxScanLast(_, _, _)
ArgMaxScanLast(s, j, best) ==
    IF j > Len(s) THEN best
    ELSE ArgMaxScanLast(s, j + 1, IF s[j] >= s[best] THEN j ELSE best)

\* a scan that keeps the last maximum instead of the first
ArgMaxLast(s) == ArgMaxScanLast(s, 2, 1) - 1

\* ndarray.argmax(axis=0) of a non-empty array, 0-based
ArgMax(s) == ArgMaxScan(s, 2, 1) - 1

\* ' '.join(tokens)
RECURSIVE Join(_)
Join(t) ==
    IF t = <<>> THEN ""
    ELSE IF Len(t) = 1 THEN t[1]
    ELSE t[1] \o " " \o Join(Tail(t))

(***************************************************************************)
(* check_and_create_data.  A data layer is named by a field of inputs; a   *)
(* field name is modelled by its index in inputs, a list of layers (and a  *)
(* seq_concat of them) by the list of their indices.                       *)
(***************************************************************************)
NoLayers == [q_ids |-> <<>>, p_ids |-> <<>>, para_lens |-> <<>>,
             para_len |-> <<>>, start_labels |-> <<>>, start_label |-> <<>>,
             end_labels |-> <<>>, end_label |-> <<>>]

\* the fields of range(lo, hi) that inputs has: the loop appends one layer
\* per index and stops with an IndexError at the first index >= len(inputs)
Fields(lo, hi, n) == Range(lo, Min(hi, IF n > lo THEN n ELSE lo))
LoopOk(lo, hi, n) == hi <= n \/ hi <= lo

MinFields(infer) == IF infer THEN MinInferFields ELSE MinTrainFields

\* lines 49 and 55: the schema error
SchemaError(infer, n) == n < MinFields(infer)

\* lines 58-73: the label layers of training mode; [ok, attrs, layers]
TrainLabels(n, d, lay) ==
    LET sl == Fields(1 + 2 * d, 1 + 3 * d, n)
        el == Fields(1 + 3 * d, 1 + 4 * d, n)
    IN  IF ~LoopOk(1 + 2 * d, 1 + 3 * d, n)
        THEN [ok |-> FALSE, attrs |-> {"start_labels"},
              layers |-> [lay EXCEPT !.start_labels = sl]]
        ELSE IF ~LoopOk(1 + 3 * d, 1 + 4 * d, n)
        THEN [ok |-> FALSE,
              attrs |-> {"start_labels", "start_label", "end_labels"},
              layers |-> [lay EXCEPT !.start_labels = sl, !.start_label = sl,
                                     !.end_labels = el]]
        ELSE [ok |-> TRUE,
              attrs |-> {"start_labels", "start_label", "end_labels",
                         "end_label"},
              layers |-> [lay EXCEPT !.start_labels = sl, !.start_label = sl,
                                     !.end_labels = el, !.end_label = el]]

\* lines 74-88: the id and length layers of both modes; [ok, attrs, layers]
CommonLayers(n, d, lay) ==
    LET ps == Fields(1, 1 + d, n)
        ls == Fields(1 + d, 1 + 2 * d, n)
    IN  IF n < 1
        THEN [ok |-> FALSE, attrs |-> {}, layers |-> lay]
        ELSE IF ~LoopOk(1, 1 + d, n)
        THEN [ok |-> FALSE, attrs |-> {"q_ids", "p_ids"},
              layers |-> [lay EXCEPT !.q_ids = <<0>>, !.p_ids = ps]]
        ELSE IF ~LoopOk(1 + d, 1 + 2 * d, n)
        THEN [ok |-> FALSE, attrs |-> {"q_ids", "p_ids", "para_lens"},
              layers |-> [lay EXCEPT !.q_ids = <<0>>, !.p_ids = ps,
                                     !.para_lens = ls]]
        ELSE [ok |-> TRUE,
              attrs |-> {"q_ids", "p_ids", "para_lens", "para_len"},
              layers |-> [lay EXCEPT !.q_ids = <<0>>, !.p_ids = ps,
                                     !.para_lens = ls, !.para_len = ls]]

check_and_create_data ==
    /\ pc = "idle"
    /\ LET n == Len(inputs)
       IN  IF SchemaError(is_infer, n)
           THEN /\ check_result' = "ValueError"
                /\ UNCHANGED <<attrs, layers>>
           ELSE LET t == IF is_infer
                         THEN [ok |-> TRUE, attrs |-> {}, layers |-> layers]
                         ELSE TrainLabels(n, doc_num, layers)
                    c == CommonLayers(n, doc_num, t.layers)
                IN  IF ~t.ok
                    THEN /\ check_result' = "IndexError"
                         /\ attrs' = attrs \cup t.attrs
                         /\ layers' = t.layers
                    ELSE /\ check_result' = IF c.ok THEN "ok" ELSE "IndexError"
                         /\ attrs' = attrs \cup t.attrs \cup c.attrs
                         /\ layers' = c.layers
    /\ UNCHANGED <<cfgVars, call_result, fileVars, evalVars, parseVars, retVars>>

(***************************************************************************)
(* __call__: infer() and train() both begin with self.network(), which in  *)
(* QAModel raises NotImplementedError before any attribute is read.        *)
(***************************************************************************)
\* lines 112-116
network == "NotImplementedError"

\* lines 292-295, through line 168 (infer) or line 155 (train)
call ==
    /\ pc = "idle"
    /\ call_result' = network
    /\ UNCHANGED <<cfgVars, attrs, layers, check_result, fileVars, evalVars,
                   parseVars, retVars>>

(***************************************************************************)
(* The data set and the batches the inferer hands to evaluate.  The k-th   *)
(* example read (k from 0) is Instance(k); ins is the dict ins[-1].        *)
(***************************************************************************)
Questions == <<"q0", "q1">>
TokenLists == << <<"a", "b", "c">>, <<"d", "e">> >>
Answers == << <<"a b">>, <<"d", "e f">> >>

Instance(k) == [question |-> Questions[(k % 2) + 1],
                tokens |-> TokenLists[(k % 2) + 1],
                answer |-> Answers[(k % 2) + 1]]

\* the length arrays of n passages, each of at least one token, that hold
\* at most s tokens together
RECURSIVE LensSet(_, _)
LensSet(n, s) ==
    IF n = 0 THEN {<<>>}
    ELSE UNION {{<<v>> \o t : t \in LensSet(n - 1, s - v)} : v \in 1..s}

\* the probability arrays handed over with lengths of sum len_sum: every
\* array of the right size 2*len_sum, and arrays of every other size up to
\* 2*len_sum+2 (their values are never read)
ProbSeqs(len_sum) ==
    [1..(2 * len_sum) -> ProbVals]
        \cup {[k \in 1..n |-> 1] : n \in (0..(2 * len_sum + 2)) \ {2 * len_sum}}

\* a batch of the network: doc_num lengths per example (infer() returns
\* self.para_len, the seq_concat of doc_num length layers) and a
\* probability array, well sized or not
Batches(d, cnt, budget) ==
    UNION {UNION {{[input |-> [j \in 1..e |-> Instance(cnt + j - 1)],
                    lens |-> l, probs |-> p] : p \in ProbSeqs(SumSeq(l))} :
                  l \in LensSet(d * e, budget)} :
           e \in 1..MaxEx}

NoBatch == [input |-> <<>>, lens |-> <<>>, probs |-> <<>>]

NoLoc == [set |-> FALSE, idx_len0 |-> 0, idx_prob0 |-> 0, len_slice |-> <<>>,
          prob_len |-> 0, start_prob_slice |-> <<>>, end_prob_slice |-> <<>>,
          start_idx |-> 0, end_idx |-> 0, tokens |-> <<>>, pred |-> ""]

NoChk == [set |-> FALSE, nprobs |-> 0, len_sum |-> 0]

(***************************************************************************)
(* __parse_infer_ret                                                       *)
(***************************************************************************)
\* line 195
DocNumUsed(m) == IF m = "marco" THEN MarcoDocNum ELSE OtherDocNum

\* an assertion that lets a long probability array through
SizeOkAtLeast(nprobs, len_sum) == nprobs >= 2 * len_sum

\* line 203
SizeOk(nprobs, len_sum) == nprobs = 2 * len_sum

\* an end search over the whole end slice at the last position
EndIdxUnrestricted(start_idx, end_prob_slice, prob_len) ==
    IF start_idx < prob_len - 1
    THEN start_idx + ArgMax(Slice(end_prob_slice, start_idx, Len(end_prob_slice)))
    ELSE ArgMax(end_prob_slice)

\* lines 214-218
EndIdx(start_idx, end_prob_slice, prob_len) ==
    IF start_idx < prob_len - 1
    THEN start_idx + ArgMax(Slice(end_prob_slice, start_idx, Len(end_prob_slice)))
    ELSE start_idx

\* lines 219-221
PredText(tokens, start_idx, end_idx) ==
    Join(IF start_idx > end_idx THEN <<>> ELSE Slice(tokens, start_idx, end_idx + 1))

\* lines 225-234
PredObj(ins, cnt, pred) ==
    [answer |-> <<pred>>, query |-> cnt, question |-> ins.question]
RefObj(ins, cnt) ==
    [answer |-> ins.answer, query |-> cnt, question |-> ins.question]
StoredObj(ins, cnt, pred) ==
    [question |-> ins.question, query |-> cnt, answer_ref |-> ins.answer,
     answer_pred |-> <<pred>>]

\* a counter that is not advanced
SameInsCnt(cnt) == cnt

\* line 238
NextInsCnt(cnt) == cnt + 1

\* an abort: the exception leaves evaluate, its locals are gone
Abort(kind) ==
    /\ pc' = "idle"
    /\ status' = kind
    /\ batch' = NoBatch
    /\ i' = 0
    /\ loc' = NoLoc
    /\ ins_cnt' = 0
    /\ pred_list' = <<>>
    /\ ref_list' = <<>>
    /\ objs' = <<>>

\* line 200, a further batch of infer_ret, and lines 201-205
FetchBatch(budget) ==
    /\ pc = "parse"
    /\ i = Len(batch.input)
    /\ nbatch < MaxBatches
    /\ \E b \in Batches(doc_num, ins_cnt, budget - tok_total) :
         LET len_sum == SumSeq(b.lens)
         IN  /\ chk' = [set |-> TRUE, nprobs |-> Len(b.probs), len_sum |-> len_sum]
             /\ nbatch' = nbatch + 1
             /\ IF SizeOk(Len(b.probs), len_sum)
                THEN /\ batch' = b
                     /\ i' = 0
                     /\ idx_len' = 0
                     /\ idx_prob' = 0
                     /\ loc' = NoLoc
                     /\ tok_total' = tok_total + len_sum
                     /\ UNCHANGED <<pc, status, ins_cnt, pred_list,
                                    ref_list, objs>>
                ELSE /\ Abort("AssertionError")
                     /\ UNCHANGED <<idx_len, idx_prob, tok_total>>
    /\ UNCHANGED <<cfgVars, schemaVars, fileVars, from_file, runs, opened, evaluated,
                   calls, log, w, retVars>>

\* lines 207-238: one example of the batch
ParseExample ==
    /\ pc = "parse"
    /\ i < Len(batch.input)
    /\ LET ins == batch.input[i + 1]
           dn == DocNumUsed(metric)
           len_slice == Slice(batch.lens, idx_len, idx_len + dn)
           prob_len == SumSeq(len_slice)
           start_prob_slice == Slice(batch.probs, idx_prob, idx_prob + prob_len)
           end_prob_slice == Slice(batch.probs, idx_prob + prob_len,
                                   idx_prob + 2 * prob_len)
       IN  IF start_prob_slice = <<>>
           THEN \* argmax of an empty array: ValueError
                /\ Abort("ValueError")
                /\ UNCHANGED <<idx_len, idx_prob>>
           ELSE LET start_idx == ArgMax(start_prob_slice)
                    end_idx == EndIdx(start_idx, end_prob_slice, prob_len)
                    pred == PredText(ins.tokens, start_idx, end_idx)
                IN  /\ idx_len' = idx_len + dn
                    /\ idx_prob' = idx_prob + prob_len * 2
                    /\ objs' = Append(objs, StoredObj(ins, ins_cnt, pred))
                    /\ pred_list' = Append(pred_list, PredObj(ins, ins_cnt, pred))
                    /\ ref_list' = Append(ref_list, RefObj(ins, ins_cnt))
                    /\ ins_cnt' = NextInsCnt(ins_cnt)
                    /\ i' = i + 1
                    /\ loc' = [set |-> TRUE, idx_len0 |-> idx_len,
                               idx_prob0 |-> idx_prob, len_slice |-> len_slice,
                               prob_len |-> prob_len,
                               start_prob_slice |-> start_prob_slice,
                               end_prob_slice |-> end_prob_slice,
                               start_idx |-> start_idx, end_idx |-> end_idx,
                               tokens |-> ins.tokens, pred |-> pred]
                    /\ UNCHANGED <<pc, status, batch>>
    /\ UNCHANGED <<cfgVars, schemaVars, fileVars, from_file, runs, opened, evaluated,
                   calls, log, nbatch, tok_total, chk, w, retVars>>

\* line 239: infer_ret is exhausted, the three lists are returned
ParseReturn ==
    /\ pc = "parse"
    /\ i = Len(batch.input)
    /\ pc' = "open"
    /\ ret_ref' = ref_list
    /\ ret_pred' = pred_list
    /\ batch' = NoBatch
    /\ i' = 0
    /\ loc' = NoLoc
    /\ chk' = NoChk
    /\ UNCHANGED <<cfgVars, schemaVars, fileVars, from_file, status, runs,
                   evaluated, opened, calls, log, nbatch, tok_total, idx_len, idx_prob,
                   ins_cnt, pred_list, ref_list, objs, w, stored>>

(***************************************************************************)
(* infer_file: one JSON object per line.  json.dumps writes the dict as a  *)
(* list of key/value members; json.loads looks a member up by its key.     *)
(***************************************************************************)
JsonDumps(o) == << <<"question", o.question>>, <<"query", o.query>>,
                   <<"answer_ref", o.answer_ref>>,
                   <<"answer_pred", o.answer_pred>> >>

JsonGet(line, key) ==
    line[CHOOSE j \in 1..Len(line) : line[j][1] = key][2]

\* a reader that takes the reference answers for the predictions
ReadPredObjSwapped(line) ==
    [query |-> JsonGet(line, "query"), answer |-> JsonGet(line, "answer_ref")]

\* lines 246-248
ReadRefObj(line) ==
    [query |-> JsonGet(line, "query"), answer |-> JsonGet(line, "answer_ref")]
ReadPredObj(line) ==
    [query |-> JsonGet(line, "query"), answer |-> JsonGet(line, "answer_pred")]

\* what an earlier execution of the program left in infer_file
StaleLines ==
    << JsonDumps([question |-> "old0", query |-> 0, answer_ref |-> <<"x">>,
                  answer_pred |-> <<"y">>]),
       JsonDumps([question |-> "old1", query |-> 1, answer_ref |-> <<"z">>,
                  answer_pred |-> <<"">>]) >>

\* open(infer_file, 'a') keeps what the file holds
OpenForAppend(lines) == lines

\* line 279: open(infer_file, 'w') truncates
OpenForWrite(lines) == <<>>

(***************************************************************************)
(* evaluate                                                                *)
(***************************************************************************)
\* lines 271-275: the call, its lists, the branch on from_file
EvaluateStart(ffs) ==
    /\ pc = "idle"
    /\ runs < MaxRuns
    /\ \E ff \in ffs :
         /\ from_file' = ff
         /\ pc' = IF ff THEN "read" ELSE "parse"
         /\ IF ff THEN UNCHANGED retVars
                  ELSE /\ ret_ref' = <<>>
                       /\ ret_pred' = <<>>
                       /\ stored' = FALSE
    /\ runs' = runs + 1
    /\ status' = "running"
    /\ opened' = FALSE
    /\ calls' = <<>>
    /\ log' = <<>>
    /\ pred_list' = <<>>
    /\ ref_list' = <<>>
    /\ objs' = <<>>
    /\ ins_cnt' = 0
    /\ nbatch' = 0
    /\ tok_total' = 0
    /\ batch' = NoBatch
    /\ i' = 0
    /\ idx_len' = 0
    /\ idx_prob' = 0
    /\ loc' = NoLoc
    /\ chk' = NoChk
    /\ w' = 0
    /\ UNCHANGED <<cfgVars, schemaVars, fileVars, evaluated>>

\* where evaluate goes once __read_list has returned
AfterReadRewrite == "open"
AfterRead == "dispatch"

\* lines 241-251 and 276
ReadList ==
    /\ pc = "read"
    /\ IF ~file_exists
       THEN \* open(infer_file, 'r') of a missing file: IOError
            /\ pc' = "idle"
            /\ status' = "IOError"
            /\ UNCHANGED <<ref_list, pred_list>>
       ELSE /\ ref_list' = [k \in 1..Len(file_lines) |-> ReadRefObj(file_lines[k])]
            /\ pred_list' = [k \in 1..Len(file_lines) |-> ReadPredObj(file_lines[k])]
            /\ pc' = AfterRead
            /\ UNCHANGED status
    /\ UNCHANGED <<cfgVars, schemaVars, fileVars, from_file, runs, opened, evaluated,
                   calls, log, nbatch, tok_total, batch, i, idx_len, idx_prob,
                   ins_cnt, objs, loc, chk, w, retVars>>

\* line 279
OpenFile ==
    /\ pc = "open"
    /\ file_exists' = TRUE
    /\ file_lines' = OpenForWrite(file_lines)
    /\ of_open' = TRUE
    /\ opened' = TRUE
    /\ w' = 0
    /\ pc' = "write"
    /\ UNCHANGED <<cfgVars, schemaVars, from_file, status, runs, calls, log,
                   evaluated, nbatch, tok_total, batch, i, idx_len, idx_prob, ins_cnt,
                   pred_list, ref_list, objs, loc, chk, retVars>>

\* lines 280-281: one object, one line
WriteLine ==
    /\ pc = "write"
    /\ w < Len(objs)
    /\ file_lines' = Append(file_lines, JsonDumps(objs[w + 1]))
    /\ w' = w + 1
    /\ UNCHANGED <<cfgVars, schemaVars, file_exists, of_open, evalVars, nbatch,
                   tok_total, batch, i, idx_len, idx_prob, ins_cnt, pred_list,
                   ref_list, objs, loc, chk, retVars>>

\* the end of the with block closes the file
CloseFile ==
    /\ pc = "write"
    /\ w = Len(objs)
    /\ of_open' = FALSE
    /\ stored' = TRUE
    /\ pc' = "dispatch"
    /\ UNCHANGED <<cfgVars, schemaVars, file_exists, file_lines, from_file,
                   status, runs, opened, calls, log, evaluated, parseVars,
                   ret_ref, ret_pred>>

\* an else branch where the code has an elif
BackendElse(m) ==
    IF m = "marco" THEN "compute_metrics_from_list" ELSE "squad_eval.eval_lists"

\* lines 282-287: the back end of a metric, "none" for an unknown metric
Backend(m) ==
    IF m = "marco" THEN "compute_metrics_from_list"
    ELSE IF m = "squad" THEN "squad_eval.eval_lists"
    ELSE "none"

\* lines 283 and 285: the call and its arguments
MetricCall(fn, preds, refs) ==
    IF fn = "compute_metrics_from_list"
    THEN [fn |-> fn, pred |-> preds, ref |-> refs, nargs |-> 3, max_refs |-> MaxRefs]
    ELSE [fn |-> fn, pred |-> preds, ref |-> refs, nargs |-> 2, max_refs |-> 0]

Dispatch ==
    /\ pc = "dispatch"
    /\ LET fn == Backend(metric)
       IN  IF fn = "none"
           THEN \* line 287: ValueError("Unknown metrics ...")
                /\ pc' = "idle"
                /\ status' = "UnknownMetric"
                /\ UNCHANGED calls
           ELSE /\ calls' = Append(calls, MetricCall(fn, pred_list, ref_list))
                /\ pc' = "log"
                /\ UNCHANGED status
    /\ UNCHANGED <<cfgVars, schemaVars, fileVars, from_file, runs, opened, evaluated, log,
                   parseVars, retVars>>

\* lines 288-290
Log ==
    /\ pc = "log"
    /\ log' = Append(log, [file |-> "infer_file", metrics |-> calls[Len(calls)].fn])
    /\ status' = "ok"
    /\ evaluated' = TRUE
    /\ pc' = "idle"
    /\ UNCHANGED <<cfgVars, schemaVars, fileVars, from_file, runs, opened,
                   calls, parseVars, retVars>>

(***************************************************************************)
(* Specifications.                                                         *)
(***************************************************************************)
InitRest ==
    /\ attrs = {}
    /\ layers = NoLayers
    /\ check_result = "none"
    /\ call_result = "none"
    /\ of_open = FALSE
    /\ pc = "idle"
    /\ from_file = FALSE
    /\ status = "none"
    /\ runs = 0
    /\ nbatch = 0
    /\ tok_total = 0
    /\ batch = NoBatch
    /\ i = 0
    /\ idx_len = 0
    /\ idx_prob = 0
    /\ ins_cnt = 0
    /\ pred_list = <<>>
    /\ ref_list = <<>>
    /\ objs = <<>>
    /\ loc = NoLoc
    /\ chk = NoChk
    /\ w = 0
    /\ ret_ref = <<>>
    /\ ret_pred = <<>>
    /\ stored = FALSE
    /\ opened = FALSE
    /\ calls = <<>>
    /\ log = <<>>
    /\ evaluated = FALSE

InitFile ==
    \/ file_exists = FALSE /\ file_lines = <<>>
    \/ file_exists = TRUE /\ file_lines = StaleLines

\* an inference model with a well-formed field list, before its first evaluate
Init ==
    /\ is_infer = TRUE
    /\ doc_num \in 1..MaxDocNum
    /\ inputs = Range(0, 1 + 2 * doc_num)
    /\ metric \in Metrics
    /\ InitFile
    /\ InitRest

\* one inference run (or none), then evaluations from the file
Next ==
    \/ EvaluateStart(IF runs = 0 THEN BOOLEAN ELSE {TRUE})
    \/ FetchBatch(MaxSum)
    \/ ParseExample
    \/ ParseReturn
    \/ ReadList
    \/ OpenFile
    \/ WriteLine
    \/ CloseFile
    \/ Dispatch
    \/ Log

Spec == Init /\ [][Next]_vars

\* any model, any field list: the schema check and __call__
InitSchema ==
    /\ is_infer \in BOOLEAN
    /\ doc_num \in 1..MaxDocNum
    /\ \E n \in 0..(2 + 4 * MaxDocNum) : inputs = Range(0, n)
    /\ metric \in Metrics
    /\ file_exists = FALSE
    /\ file_lines = <<>>
    /\ InitRest

NextSchema == check_and_create_data \/ call

SpecSchema == InitSchema /\ [][NextSchema]_vars

\* the life of one instance: every operation, in any order, evaluate any
\* number of times in either mode, over runs of at most two passage tokens
InitLife ==
    /\ is_infer \in BOOLEAN
    /\ doc_num \in 1..MaxDocNum
    /\ inputs = Range(0, 1 + (IF is_infer THEN 2 ELSE 4) * doc_num)
    /\ metric \in Metrics
    /\ InitFile
    /\ InitRest

NextLife ==
    \/ check_and_create_data
    \/ call
    \/ EvaluateStart(BOOLEAN)
    \/ FetchBatch(2)
    \/ ParseExample
    \/ ParseReturn
    \/ ReadList
    \/ OpenFile
    \/ WriteLine
    \/ CloseFile
    \/ Dispatch
    \/ Log

SpecLife == InitLife /\ [][NextLife]_vars

(***************************************************************************)
(* Properties.                                                             *)
(***************************************************************************)
\* k (0-based) is the lowest index of s, among the indices from..Len(s)-1,
\* that holds the maximum of s over those indices
LowestMaxFrom(s, from, k) ==
    /\ k \in from..(Len(s) - 1)
    /\ \A j \in from..(Len(s) - 1) : s[j + 1] <= s[k + 1]
    /\ \A j \in from..(k - 1) : s[j + 1] < s[k + 1]

Known == {"marco", "squad"}

\* C1: for every example with prob_len >= 1, start_idx is the lowest index
\* holding the maximum of start_prob_slice; if start_idx < prob_len - 1 then
\* end_idx is the lowest index >= start_idx holding the maximum of
\* end_prob_slice[start_idx:], otherwise end_idx = start_idx; so
\* start_idx <= end_idx <= prob_len - 1.
C1_SpanSelection ==
    (loc.set /\ loc.prob_len >= 1) =>
        /\ Len(loc.start_prob_slice) = loc.prob_len
        /\ Len(loc.end_prob_slice) = loc.prob_len
        /\ LowestMaxFrom(loc.start_prob_slice, 0, loc.start_idx)
        /\ IF loc.start_idx < loc.prob_len - 1
           THEN LowestMaxFrom(loc.end_prob_slice, loc.start_idx, loc.end_idx)
           ELSE loc.end_idx = loc.start_idx
        /\ loc.start_idx <= loc.end_idx
        /\ loc.end_idx <= loc.prob_len - 1

\* an example whose restricted end search differs from a search of the whole
\* end slice: the start is in the middle and the end slice peaks before it
C1_Witness ==
    /\ loc.set
    /\ loc.prob_len = 3
    /\ loc.start_idx = 1
    /\ loc.end_prob_slice[1] > loc.end_prob_slice[loc.end_idx + 1]

\* C2: for every doc_num >= 1 a field list of exactly 1+4*doc_num names in
\* training mode (1+2*doc_num in inference mode) validates, and a list one
\* name shorter fails with the schema error (ValueError) and no other fault.
C2_SchemaBoundary ==
    check_result # "none" =>
        LET boundary == IF is_infer THEN 1 + 2 * doc_num ELSE 1 + 4 * doc_num
        IN  /\ Len(inputs) = boundary => check_result = "ok"
            /\ Len(inputs) = boundary - 1 => check_result = "ValueError"

\* C3: for each example the post-processor consumes exactly doc_num (the
\* configured document count) consecutive values of lens, prob_len is their
\* sum, the length offset advances by doc_num and the probability offset by
\* 2*prob_len, whatever doc_num and metric are.
C3_LengthConsumption ==
    loc.set =>
        /\ Len(loc.len_slice) = doc_num
        /\ loc.idx_len0 + doc_num <= Len(batch.lens)
        /\ loc.len_slice = SubSeq(batch.lens, loc.idx_len0 + 1, loc.idx_len0 + doc_num)
        /\ loc.prob_len = SumSeq(loc.len_slice)
        /\ idx_len = loc.idx_len0 + doc_num
        /\ idx_prob = loc.idx_prob0 + 2 * loc.prob_len

\* C4 as claimed: when start_idx = prob_len - 1 the end index is the argmax
\* of the whole end_prob_slice; if it is below start_idx the predicted answer
\* is an empty sequence, otherwise the joined tokens[start_idx : end_idx+1].
C4_Original ==
    (loc.set /\ loc.start_idx = loc.prob_len - 1) =>
        /\ LowestMaxFrom(loc.end_prob_slice, 0, loc.end_idx)
        /\ pred_list[Len(pred_list)].answer =
               IF loc.end_idx < loc.start_idx THEN <<>> ELSE <<loc.pred>>

\* C4 as amended: when start_idx = prob_len - 1 no end search is made and
\* end_idx = start_idx, so the empty-span branch is not taken: the predicted
\* answer is the one-element list holding the single token tokens[start_idx]
\* (the empty string when tokens has no position start_idx).
C4_LastPosition ==
    (loc.set /\ loc.start_idx = loc.prob_len - 1) =>
        /\ loc.end_idx = loc.start_idx
        /\ loc.pred = IF loc.start_idx < Len(loc.tokens)
                      THEN loc.tokens[loc.start_idx + 1] ELSE ""
        /\ pred_list[Len(pred_list)].answer = <<loc.pred>>

\* the start is the last position and the end slice peaks before it
C4_Witness ==
    /\ loc.set
    /\ loc.prob_len >= 2
    /\ loc.start_idx = loc.prob_len - 1
    /\ loc.end_prob_slice[1] > loc.end_prob_slice[loc.prob_len]
    /\ loc.pred # ""

\* C5: a batch with len(probs) # 2*sum(lens) makes the post-processor fault
\* with the assertion (and only such a batch does); the evaluation run is
\* over: infer_file was not opened and holds what it held before the call,
\* no metric back end was invoked and no log line written.
C5_SizeFault ==
    /\ (chk.set /\ chk.nprobs # 2 * chk.len_sum) =>
          /\ status = "AssertionError"
          /\ pc = "idle"
          /\ ~opened
          /\ ~of_open
          /\ \/ ~file_exists /\ file_lines = <<>>
             \/ file_exists /\ file_lines = StaleLines
          /\ calls = <<>>
          /\ log = <<>>
    /\ status = "AssertionError" => (chk.set /\ chk.nprobs # 2 * chk.len_sum)

\* the second batch is the mismatched one: the first was well formed and
\* processed, and probs is longer than 2*sum(lens), so a slice would fit
C5_Witness ==
    /\ status = "AssertionError"
    /\ nbatch = 2
    /\ chk.nprobs > 2 * chk.len_sum
    /\ chk.len_sum >= 1

\* C6: once evaluate reaches the dispatch, in both modes exactly one back end
\* is invoked exactly once, chosen by metric: marco ->
\* compute_metrics_from_list(pred_list, ref_list, 1), squad ->
\* squad_eval.eval_lists(pred_list, ref_list); for any other metric evaluate
\* raises the unknown-metric error, invokes no back end, writes no log line.
C6_MetricDispatch ==
    /\ (pc = "log" \/ status = "ok") =>
          /\ Len(calls) = 1
          /\ calls[1].pred = pred_list
          /\ calls[1].ref = ref_list
          /\ \/ /\ metric = "marco"
                /\ calls[1].fn = "compute_metrics_from_list"
                /\ calls[1].nargs = 3
                /\ calls[1].max_refs = 1
             \/ /\ metric = "squad"
                /\ calls[1].fn = "squad_eval.eval_lists"
                /\ calls[1].nargs = 2
    /\ status = "ok" => Len(log) = 1
    /\ (pc # "log" /\ status # "ok") => (calls = <<>> /\ log = <<>>)
    /\ pc = "log" => log = <<>>
    /\ metric \notin Known => (calls = <<>> /\ log = <<>> /\ status # "ok")
    /\ (metric \notin Known /\ pc = "idle" /\ status \notin
            {"none", "AssertionError", "ValueError", "IOError"}) =>
          status = "UnknownMetric"
    /\ status = "UnknownMetric" => metric \notin Known

\* an unknown metric, met when scoring from a file that holds records
C6_Witness ==
    /\ status = "UnknownMetric"
    /\ from_file
    /\ Len(pred_list) >= 1

\* evaluate(from_file=True) has read the file that the preceding
\* evaluate(from_file=False) wrote
Reloaded ==
    /\ from_file
    /\ stored
    /\ pc \in {"dispatch", "log", "idle"}

\* C7 as claimed: the reloaded reference and prediction lists are identical
\* to the lists the post-processor produced in memory.
C7_Original == Reloaded => (ref_list = ret_ref /\ pred_list = ret_pred)

\* C7 as amended: the reloaded lists have the records of the in-memory lists
\* in the same order, each with the same query and the same answer, and with
\* these two fields only (question is not reloaded).
C7_RoundTrip ==
    Reloaded =>
        /\ Len(ref_list) = Len(ret_ref)
        /\ Len(pred_list) = Len(ret_pred)
        /\ \A k \in 1..Len(ref_list) :
              /\ DOMAIN ref_list[k] = {"query", "answer"}
              /\ ref_list[k].query = ret_ref[k].query
              /\ ref_list[k].answer = ret_ref[k].answer
        /\ \A k \in 1..Len(pred_list) :
              /\ DOMAIN pred_list[k] = {"query", "answer"}
              /\ pred_list[k].query = ret_pred[k].query
              /\ pred_list[k].answer = ret_pred[k].answer

\* two records reloaded, whose prediction differs from the reference
C7_Witness ==
    /\ Reloaded
    /\ Len(ref_list) >= 2
    /\ pred_list[1].answer # ref_list[1].answer

\* C8: in a run over any batches the k-th example processed (k from 0) has
\* query = k in its prediction, reference and stored record; the counter is
\* not reset at a batch boundary; the stored records are written to
\* infer_file one per line in that order.
C8_SequentialQuery ==
    ~from_file =>
        /\ ins_cnt = Len(objs)
        /\ Len(pred_list) = Len(objs)
        /\ Len(ref_list) = Len(objs)
        /\ \A k \in 1..Len(objs) :
              /\ objs[k].query = k - 1
              /\ pred_list[k].query = k - 1
              /\ ref_list[k].query = k - 1
        /\ opened =>
              /\ Len(file_lines) <= Len(objs)
              /\ \A k \in 1..Len(file_lines) :
                    /\ JsonGet(file_lines[k], "query") = k - 1
                    /\ JsonGet(file_lines[k], "question") = objs[k].question
                    /\ JsonGet(file_lines[k], "answer_pred") = pred_list[k].answer
                    /\ JsonGet(file_lines[k], "answer_ref") = ref_list[k].answer
        /\ stored => Len(file_lines) = Len(objs)

\* three examples over two batches, persisted
C8_Witness ==
    /\ ~from_file
    /\ stored
    /\ nbatch = 2
    /\ Len(file_lines) >= 3

\* a step of the instance leaves infer_file as it is
FileUnchanged == file_exists' = file_exists /\ file_lines' = file_lines

\* infer_file holds the stored records of the run, one line each
FileIsObjs ==
    /\ file_exists
    /\ Len(file_lines) = Len(objs)
    /\ \A k \in 1..Len(objs) :
          /\ JsonGet(file_lines[k], "question") = objs[k].question
          /\ JsonGet(file_lines[k], "query") = objs[k].query
          /\ JsonGet(file_lines[k], "answer_ref") = objs[k].answer_ref
          /\ JsonGet(file_lines[k], "answer_pred") = objs[k].answer_pred

\* C9 as claimed: once evaluate has completed for infer_file, no later
\* operation of the instance re-enters the post-processing or changes what
\* was persisted.
C9_Original ==
    [][evaluated => (FileUnchanged /\ pc' \notin {"parse", "open", "write"})]_vars

\* C9 as amended: the instance enforces no order of its operations; what no
\* operation undoes is this: the constructor's fields never change, the
\* attributes made by check_and_create_data are never removed, and
\* infer_file is changed by no operation but evaluate(from_file=False),
\* which (also after an evaluate has completed) truncates it and rewrites it
\* with the records of the new run once its post-processing has succeeded.
C9_Lifecycle ==
    [][/\ UNCHANGED cfgVars
       /\ attrs \subseteq attrs'
       /\ evaluated => evaluated'
       /\ from_file' => FileUnchanged
       /\ ~FileUnchanged => (~from_file /\ pc \in {"open", "write"})
       /\ (pc = "parse" /\ pc' = "idle") => FileUnchanged
       /\ (pc = "write" /\ pc' = "dispatch") => FileIsObjs']_vars

\* an evaluate(from_file=False) writing its records after an earlier
\* evaluate on the same file has completed
C9_Witness ==
    /\ evaluated
    /\ runs = 2
    /\ ~from_file
    /\ pc = "write"
    /\ w >= 1
    /\ check_result = "ok"

\* C10: when the post-processing of all batches succeeds in
\* evaluate(from_file=False), infer_file is opened truncating its previous
\* content, receives one line per processed example, and is closed before
\* the metric is examined for the dispatch: the file is fully written for
\* every metric, also an unknown one; evaluate(from_file=True) never writes.
C10_WriteBeforeScore ==
    /\ [](/\ (~from_file /\ (pc \in {"dispatch", "log"}
                            \/ status \in {"ok", "UnknownMetric"})) =>
              (opened /\ ~of_open /\ FileIsObjs /\ Len(file_lines) = ins_cnt)
          /\ of_open => (pc = "write" /\ ~from_file)
          /\ (~from_file /\ pc = "write") => (of_open /\ Len(file_lines) = w)
          /\ from_file => ~opened)
    /\ [][from_file' => FileUnchanged]_vars

\* the call failed on an unknown metric and the file holds its two records
C10_Witness ==
    /\ ~from_file
    /\ status = "UnknownMetric"
    /\ Len(file_lines) = 2
    /\ ins_cnt = 2

====
